---- MODULE Spec2Model ----
(***************************************************************************)
(* Model of @samchon/openapi 0.1.20: OpenApi.convert / OpenApi.downgrade   *)
(* (src/src/OpenApi.ts), the OpenApiV3_1.is recognizer                     *)
(* (src/src/OpenApiV3_1.ts) and the Swagger 2.0 upgrader                   *)
(* SwaggerV2Converter (src/unnamed/part_001).                              *)
(*                                                                         *)
(* JSON values.  An object is a TLA+ function from key strings to values;  *)
(* a key whose value is `undefined` is modelled as an absent key, which is *)
(* what structural (JSON) equality and every read in the code observe.     *)
(* An object spread that overrides a key with `undefined` therefore        *)
(* removes the key.  A string the code inspects (startsWith, replace,      *)
(* split) is a sequence of tokens: version strings are tokenised per       *)
(* character, references per path segment with "/" a token of its own.     *)
(* A value that may be a boolean or an object (additionalProperties) wraps *)
(* the boolean as [bool |-> b].                                            *)
(***************************************************************************)
EXTENDS Integers, Sequences, FiniteSets, TLC

\* input:   the value handed to convert (or the schema handed to convertSchema)
\* version: the version tag handed to downgrade
\* emended: what convert returned (or threw)
\* output:  what the second call (convert again, downgrade, convertSchema) returned
\* via:     the converter or downgrader the last call dispatched to
\* pc:      the calls made so far
VARIABLES input, version, emended, output, via, pc

vars == <<input, version, emended, output, via, pc>>

(***************************************************************************)
(* Bounds of the input universe.                                           *)
(***************************************************************************)
\* nesting depth of composite schemas
MaxDepth == 2
\* longest enum list
MaxEnum == 2
\* longest x-oneOf / x-anyOf list
MaxBranch == 2

(***************************************************************************)
(* Generic helpers: objects, strings as token sequences.                   *)
(***************************************************************************)
Empty == [k \in {} |-> TRUE]

Has(obj, key) == key \in DOMAIN obj

Without(obj, keys) == [k \in (DOMAIN obj) \ keys |-> obj[k]]

\* obj[key], read only when the key is present
Get(obj, key, default) == IF key \in DOMAIN obj THEN obj[key] ELSE default

\* { key: obj[key] } when the key is present, the empty object otherwise
Pick(obj, keys) == [k \in keys \cap DOMAIN obj |-> obj[k]]

\* String.prototype.startsWith
StartsWith(s, prefix) ==
  /\ Len(s) >= Len(prefix)
  /\ SubSeq(s, 1, Len(prefix)) = prefix

\* index of the first occurrence of pattern in s, 0 when there is none
IndexOf(s, pattern) ==
  LET hits == {i \in 1..(Len(s) - Len(pattern) + 1) :
                 SubSeq(s, i, i + Len(pattern) - 1) = pattern}
  IN IF hits = {} THEN 0 ELSE CHOOSE i \in hits : \A j \in hits : i <= j

\* String.prototype.replace(pattern, replacement) with a string pattern:
\* only the first occurrence is replaced
Replace(s, pattern, replacement) ==
  LET i == IndexOf(s, pattern)
  IN IF i = 0 THEN s
     ELSE SubSeq(s, 1, i - 1) \o replacement \o SubSeq(s, i + Len(pattern), Len(s))

\* s.split("/").pop(): the text after the last "/"
SplitPop(s) ==
  LET slashes == {i \in 1..Len(s) : s[i] = "/"}
      last == IF slashes = {} THEN 0 ELSE CHOOSE i \in slashes : \A j \in slashes : j <= i
  IN SubSeq(s, last + 1, Len(s))

DefinitionsPrefix == <<"#", "/", "definitions", "/">>
ComponentsSchemasPrefix == <<"#", "/", "components", "/", "schemas", "/">>
ComponentsPrefix == <<"#", "/", "components", "/">>

\* a TypeError raised while converting (reading a property of undefined)
Thrown == [thrown |-> "TypeError", message |-> "Cannot read properties of undefined"]
IsThrown(v) == Has(v, "thrown")

\* the value `undefined` handed to a function as its argument
Undefined == [undefined |-> TRUE]
IsUndefined(v) == Has(v, "undefined")

\* keys of the vocabulary for which key.startsWith("x-") is true
KeyStartsWithXDash(key) == key \in {"x-nullable", "x-oneOf", "x-anyOf", "x-foo"}

(***************************************************************************)
(* SwaggerV2Converter.TypeChecker                                          *)
(***************************************************************************)
isBoolean(schema) == Has(schema, "type") /\ schema.type = "boolean"
isInteger(schema) == Has(schema, "type") /\ schema.type = "integer"
isNumber(schema) == Has(schema, "type") /\ schema.type = "number"
isString(schema) == Has(schema, "type") /\ schema.type = "string"
isArray(schema) == Has(schema, "type") /\ schema.type = "array"
isObject(schema) == Has(schema, "type") /\ schema.type = "object"
isReference(schema) == Has(schema, "$ref")
isOneOf(schema) == Has(schema, "x-oneOf")
isAnyOf(schema) == Has(schema, "x-anyOf")

(***************************************************************************)
(* SwaggerV2Converter.convertSchema                                        *)
(***************************************************************************)
RECURSIVE convertSchema(_)
RECURSIVE visit(_, _)
RECURSIVE visitEach(_, _)

\* the accumulator of one convertSchema call: the union list, the nullable
\* flag, and whether a nested call has thrown
NewAccumulator == [union |-> <<>>, nullable |-> FALSE, thrown |-> FALSE]

push(acc, branches) == [acc EXCEPT !.union = acc.union \o branches]

thrownIn(acc) == [acc EXCEPT !.thrown = TRUE]

MapValues(map, F(_)) == [k \in DOMAIN map |-> F(map[k])]

AnyThrown(map) == \E k \in DOMAIN map : IsThrown(map[k])

\* schema.enum.map((value) => ({ const: value }))
enumConstants(enum) == [i \in 1..Len(enum) |-> [const |-> enum[i]]]

visitEachNested(list, acc) ==
  push(acc, [i \in 1..Len(list) |-> convertSchema(list[i])])

\* array.forEach(visit): the elements in order; a throw ends the loop
visitEach(list, acc) ==
  IF list = <<>> \/ acc.thrown THEN acc
  ELSE visitEach(Tail(list), visit(Head(list), acc))

visitAtomic(schema, acc) ==
  IF Has(schema, "enum") /\ Len(schema.enum) > 0
  THEN push(acc, enumConstants(schema.enum))
  ELSE push(acc, <<Without(schema, {"enum"})>>)

\* { ...schema, items: items }
arrayBranch(schema, items, acc) ==
  IF IsThrown(items) THEN thrownIn(acc)
  ELSE push(acc, <<("items" :> items) @@ schema>>)

visitArray(schema, acc) ==
  arrayBranch(schema, convertSchema(Get(schema, "items", Undefined)), acc)

\* { ...schema, properites: ..., additionalProperties: ... }; a key whose
\* value is undefined is absent
objectBranch(schema, properites, additional, acc) ==
  IF AnyThrown(properites) \/ AnyThrown(additional) THEN thrownIn(acc)
  ELSE push(acc, <<additional @@ properites
                   @@ Without(schema, {"properites", "additionalProperties"})>>)

\* properites: schema.properties ? fromEntries(... convertSchema(value)) : undefined
convertProperties(schema) ==
  IF Has(schema, "properties")
  THEN [properites |-> MapValues(schema.properties, convertSchema)]
  ELSE Empty

\* additionalProperties: undefined when falsy, converted when an object,
\* kept when the boolean true
convertAdditional(schema) ==
  IF ~Has(schema, "additionalProperties") \/ schema.additionalProperties = [bool |-> FALSE]
  THEN Empty
  ELSE IF Has(schema.additionalProperties, "bool")
  THEN [additionalProperties |-> schema.additionalProperties]
  ELSE [additionalProperties |-> convertSchema(schema.additionalProperties)]

propertiesChecked(converted) ==
  IF Has(converted, "properites") /\ AnyThrown(converted.properites)
  THEN [properites |-> Thrown] ELSE converted

visitObject(schema, acc) ==
  objectBranch(schema, propertiesChecked(convertProperties(schema)),
               convertAdditional(schema), acc)

visitReference(schema, acc) ==
  push(acc, <<("$ref" :> Replace(schema["$ref"], DefinitionsPrefix, ComponentsSchemasPrefix))
              @@ schema>>)

\* if (schema["x-nullable"] === true) nullable.value ||= true
noteNullable(schema, acc) ==
  [acc EXCEPT !.nullable = @ \/ (Has(schema, "x-nullable") /\ schema["x-nullable"] = TRUE)]

dispatch(schema, seen) ==
  IF isAnyOf(schema) THEN visitEach(schema["x-anyOf"], seen)
  ELSE IF isOneOf(schema) THEN visitEach(schema["x-oneOf"], seen)
  ELSE IF isBoolean(schema) \/ isInteger(schema) \/ isNumber(schema) \/ isString(schema)
  THEN visitAtomic(schema, seen)
  ELSE IF isArray(schema) THEN visitArray(schema, seen)
  ELSE IF isObject(schema) THEN visitObject(schema, seen)
  ELSE IF isReference(schema) THEN visitReference(schema, seen)
  ELSE push(seen, <<schema>>)

visit(schema, acc) == dispatch(schema, noteNullable(schema, acc))

\* const attribute = { title, description, ...x- keys of input }
attributeKeys(schema) == {k \in DOMAIN schema : KeyStartsWithXDash(k)}

\* { ...result, ...attribute }: title and description are always written
\* (undefined when the input has none), the x- keys when the input has them
mergeAttribute(result, schema) ==
  Pick(schema, {"title", "description"} \cup attributeKeys(schema))
    @@ Without(result, {"title", "description"})

finalizeUnionAlways(acc) ==
  IF acc.nullable THEN Append(acc.union, [type |-> "null"]) ELSE acc.union

\* the null branch is appended when nullable and no branch has type "null"
finalizeUnion(acc) ==
  IF acc.nullable /\ ~\E i \in 1..Len(acc.union) :
                        Has(acc.union[i], "type") /\ acc.union[i].type = "null"
  THEN Append(acc.union, [type |-> "null"])
  ELSE acc.union

\* zero branches: { type: undefined }; one: the branch; more: { oneOf: union }
unionResult(union) ==
  IF Len(union) = 0 THEN Empty
  ELSE IF Len(union) = 1 THEN union[1]
  ELSE [oneOf |-> union]

finish(acc, schema) ==
  IF acc.thrown THEN Thrown
  ELSE mergeAttribute(unionResult(finalizeUnion(acc)), schema)

convertSchema(schema) ==
  IF IsUndefined(schema) THEN Thrown
  ELSE finish(visit(schema, NewAccumulator), schema)

(***************************************************************************)
(* SwaggerV2Converter: operations, responses, components, documents.       *)
(***************************************************************************)
\* .filter(([_, v]) => v !== undefined)
FilterDefined(map) == [k \in {d \in DOMAIN map : ~IsUndefined(map[d])} |-> map[k]]

\* components?.[ref.split("/").pop() ?? ""]: undefined when the components
\* map or the entry is missing
Dereference(doc, section, ref) ==
  LET name == SplitPop(ref)
  IN IF Has(doc, section) /\ Len(name) = 1 /\ Has(doc[section], name[1])
     THEN doc[section][name[1]]
     ELSE Undefined

Methods == {"get", "put", "post", "delete", "options", "head", "patch", "trace"}

parameterOfSourceRequired(parameter, schema) ==
  IF IsThrown(schema) THEN Thrown
  ELSE [schema |-> schema] @@ Pick(parameter, {"name", "in", "description", "required"})

\* { name, in, description, schema, required: true }
parameterOf(parameter, schema) ==
  IF IsThrown(schema) THEN Thrown
  ELSE [schema |-> schema, required |-> TRUE]
         @@ Pick(parameter, {"name", "in", "description"})

convertParameter(parameter) == parameterOf(parameter, convertSchema(parameter))

\* { schema: convertSchema(...) }
mediaOf(schema) == IF IsThrown(schema) THEN Thrown ELSE [schema |-> schema]

requestBodyOf(found, media) ==
  IF IsThrown(media) THEN Thrown
  ELSE [content |-> ("application/json" :> media)] @@ Pick(found, {"description"})

convertRequestBody(found) ==
  requestBodyOf(found, mediaOf(convertSchema(Get(found, "schema", Undefined))))

headerOf(schema) ==
  IF IsThrown(schema) THEN Thrown ELSE [schema |-> schema, in |-> "header"]

convertHeader(value) == headerOf(convertSchema(value))

\* content: input.schema ? { "application/json": { schema } } : undefined
responseContent(found) ==
  IF Has(found, "schema")
  THEN [content |-> ("application/json" :> mediaOf(convertSchema(found.schema)))]
  ELSE Empty

contentChecked(part) ==
  IF Has(part, "content") /\ AnyThrown(part.content) THEN Thrown ELSE part

responseHeaders(found) ==
  IF Has(found, "headers")
  THEN [headers |-> MapValues(FilterDefined(found.headers), convertHeader)]
  ELSE Empty

headersChecked(part) ==
  IF Has(part, "headers") /\ AnyThrown(part.headers) THEN Thrown ELSE part

responseOf(found, content, headers) ==
  IF IsThrown(content) \/ IsThrown(headers) THEN Thrown
  ELSE headers @@ content @@ Pick(found, {"description"})

convertFound(found) ==
  IF IsUndefined(found) THEN Undefined
  ELSE responseOf(found, contentChecked(responseContent(found)),
                  headersChecked(responseHeaders(found)))

convertResponse(doc, response) ==
  convertFound(IF isReference(response)
               THEN Dereference(doc, "responses", response["$ref"])
               ELSE response)

\* the parameter an entry of a parameters list stands for
resolveParameter(doc, p) ==
  IF isReference(p) THEN Dereference(doc, "parameters", p["$ref"]) ELSE p

generalParametersOperationFirst(doc, pathItem, operation) ==
  SelectSeq([i \in 1..(Len(Get(operation, "parameters", <<>>))
                        + Len(Get(pathItem, "parameters", <<>>))) |->
               resolveParameter(doc, (Get(operation, "parameters", <<>>)
                                        \o Get(pathItem, "parameters", <<>>))[i])],
            LAMBDA p : ~IsUndefined(p) /\ ~Has(p, "schema"))

\* [...pathItem.parameters, ...input.parameters] dereferenced, without the
\* unresolved and the body (schema-carrying) ones
generalParameters(doc, pathItem, operation) ==
  SelectSeq([i \in 1..(Len(Get(pathItem, "parameters", <<>>))
                        + Len(Get(operation, "parameters", <<>>))) |->
               resolveParameter(doc, (Get(pathItem, "parameters", <<>>)
                                        \o Get(operation, "parameters", <<>>))[i])],
            LAMBDA p : ~IsUndefined(p) /\ ~Has(p, "schema"))

\* the index of the first entry whose resolved form carries a schema, or 0
firstBody(doc, list) ==
  LET hits == {i \in 1..Len(list) :
                 /\ ~IsUndefined(resolveParameter(doc, list[i]))
                 /\ Has(resolveParameter(doc, list[i]), "schema")}
  IN IF hits = {} THEN 0 ELSE CHOOSE i \in hits : \A j \in hits : i <= j

\* input.parameters?.find(...): the first element of the operation's own
\* list whose resolved form carries a schema; the element itself is returned
elementAt(list, i) == IF i = 0 THEN Undefined ELSE list[i]

findBody(doc, operation) ==
  elementAt(Get(operation, "parameters", <<>>),
            firstBody(doc, Get(operation, "parameters", <<>>)))

\* requestBody: found ? convertRequestBody(found) : undefined
requestBodyFor(found) ==
  IF IsUndefined(found) THEN Empty ELSE [requestBody |-> convertRequestBody(found)]

convertParameters(general) == [i \in 1..Len(general) |-> convertParameter(general[i])]

parametersChecked(parameters) ==
  IF \E i \in 1..Len(parameters) : IsThrown(parameters[i])
  THEN Thrown ELSE [parameters |-> parameters]

convertResponses(doc, operation) ==
  IF Has(operation, "responses")
  THEN [responses |-> FilterDefined(MapValues(operation.responses,
                                              LAMBDA r : convertResponse(doc, r)))]
  ELSE Empty

responsesChecked(part) ==
  IF Has(part, "responses") /\ AnyThrown(part.responses) THEN Thrown ELSE part

\* { ...input, parameters, requestBody, responses }
operationOf(operation, parameters, requestBody, responses) ==
  IF IsThrown(parameters) \/ AnyThrown(requestBody) \/ IsThrown(responses) THEN Thrown
  ELSE responses @@ requestBody @@ parameters
         @@ Without(operation, {"parameters", "requestBody", "responses"})

convertOperation(doc, pathItem, operation) ==
  operationOf(operation,
              parametersChecked(convertParameters(generalParameters(doc, pathItem, operation))),
              requestBodyFor(findBody(doc, operation)),
              responsesChecked(convertResponses(doc, operation)))

\* { ...pathItem, get: convertOperation(...), ... } for each method present
pathItemOf(converted) ==
  IF \E k \in Methods \cap DOMAIN converted : IsThrown(converted[k]) THEN Thrown
  ELSE converted

convertPathItem(doc, pathItem) ==
  pathItemOf([k \in DOMAIN pathItem |->
                IF k \in Methods THEN convertOperation(doc, pathItem, pathItem[k])
                ELSE pathItem[k]])

\* { type: "oauth2", description, flows: { [name]: { ...the flow's fields } } }
oauth2Flow(scheme, name, keys) ==
  [type |-> "oauth2", flows |-> (name :> Pick(scheme, keys))]
    @@ Pick(scheme, {"description"})

convertSecurityScheme(scheme) ==
  IF scheme.type = "apiKey" THEN scheme
  ELSE IF scheme.type = "basic"
  THEN [type |-> "http", scheme |-> "basic"] @@ Pick(scheme, {"description"})
  ELSE IF scheme.type = "oauth2" /\ Has(scheme, "flow")
  THEN IF scheme.flow = "implicit"
       THEN oauth2Flow(scheme, "implicit", {"authorizationUrl", "scopes"})
       ELSE IF scheme.flow = "accessCode"
       THEN oauth2Flow(scheme, "authorizationCode", {"authorizationUrl", "tokenUrl", "scopes"})
       ELSE IF scheme.flow = "password"
       THEN oauth2Flow(scheme, "password", {"tokenUrl", "scopes"})
       ELSE IF scheme.flow = "application"
       THEN oauth2Flow(scheme, "clientCredentials", {"tokenUrl", "scopes"})
       ELSE Undefined
  ELSE Undefined

\* securitySchemes: input.securityDefinitions ? fromEntries(...) : undefined
convertSecuritySchemes(doc) ==
  IF Has(doc, "securityDefinitions")
  THEN [securitySchemes |-> FilterDefined(MapValues(doc.securityDefinitions,
                                                    convertSecurityScheme))]
  ELSE Empty

componentsOf(schemas, securitySchemes) ==
  IF AnyThrown(schemas) THEN Thrown ELSE securitySchemes @@ [schemas |-> schemas]

convertComponents(doc) ==
  componentsOf(MapValues(Get(doc, "definitions", Empty), convertSchema),
               convertSecuritySchemes(doc))

\* a JSON string value, as the recognizers see it (typeof v === "string")
Str(tokens) == [t |-> "string", v |-> tokens]

V310 == <<"3", ".", "1", ".", "0">>

\* paths: input.paths ? fromEntries(... convertPathItem(input)(value)) : undefined
convertPaths(doc) ==
  IF Has(doc, "paths")
  THEN [paths |-> MapValues(doc.paths, LAMBDA item : convertPathItem(doc, item))]
  ELSE Empty

pathsChecked(part) ==
  IF Has(part, "paths") /\ AnyThrown(part.paths) THEN Thrown ELSE part

\* servers: input.host ? [{ url: input.host }] : undefined
convertServers(doc) ==
  IF Has(doc, "host") /\ doc.host # "" THEN [servers |-> <<[url |-> doc.host]>>] ELSE Empty

documentOf(doc, components, paths) ==
  IF IsThrown(components) \/ IsThrown(paths) THEN Thrown
  ELSE ("x-samchon-emended" :> TRUE)
         @@ [openapi |-> Str(V310), components |-> components]
         @@ paths @@ convertServers(doc) @@ Pick(doc, {"info", "security", "tags"})

SwaggerV2Converter_convert(doc) ==
  documentOf(doc, convertComponents(doc), pathsChecked(convertPaths(doc)))

(***************************************************************************)
(* The recognizers, OpenApi.convert and OpenApi.downgrade.                 *)
(* A value handed to convert is [t |-> its kind, v |-> its content]; kind  *)
(* "null" is JavaScript's null, whose typeof is "object".                  *)
(***************************************************************************)
Obj(doc) == [t |-> "object", v |-> doc]

typeof(value) == IF value.t = "null" THEN "object" ELSE value.t

V20 == <<"2", ".", "0">>
V30 == <<"3", ".", "0">>
V300 == <<"3", ".", "0", ".", "0">>

OpenApiV3_1_isPrefix30(value) ==
  /\ typeof(value) = "object"
  /\ value.t # "null"
  /\ Has(value.v, "openapi") /\ typeof(value.v.openapi) = "string"
  /\ StartsWith(value.v.openapi.v, <<"3", ".", "0">>)

OpenApiV3_1_is(value) ==
  /\ typeof(value) = "object"
  /\ value.t # "null"
  /\ Has(value.v, "openapi") /\ typeof(value.v.openapi) = "string"
  /\ StartsWith(value.v.openapi.v, <<"3", ".", "1">>)

\* rule 3 of the version sniffer: openapi is a string starting with "3.0."
OpenApiV3_is(value) ==
  /\ value.t = "object"
  /\ Has(value.v, "openapi") /\ typeof(value.v.openapi) = "string"
  /\ StartsWith(value.v.openapi.v, <<"3", ".", "0", ".">>)

\* rule 4: swagger === "2.0" and a definitions or paths key is present
SwaggerV2_is(value) ==
  /\ value.t = "object"
  /\ Has(value.v, "swagger") /\ value.v.swagger = Str(V20)
  /\ (Has(value.v, "definitions") \/ Has(value.v, "paths"))

IsEmended(doc) == Has(doc, "x-samchon-emended") /\ doc["x-samchon-emended"] = TRUE

\* rule 1: an emended document is returned as it is; otherwise the envelope
\* of an emended document around the input's content
OpenApiV3_1Converter_convert(doc) ==
  IF IsEmended(doc) THEN doc
  ELSE ("x-samchon-emended" :> TRUE)
         @@ [components |-> Get(doc, "components", Empty)]
         @@ doc

OpenApiV3Converter_convert(doc) ==
  ("x-samchon-emended" :> TRUE)
    @@ [openapi |-> Str(V310), components |-> Get(doc, "components", Empty)]
    @@ doc

Unrecognized == [thrown |-> "TypeError", message |-> "Unrecognized Swagger/OpenAPI version."]

convertTargetSwaggerFirst(value) ==
  IF SwaggerV2_is(value) THEN "SwaggerV2Converter"
  ELSE IF OpenApiV3_is(value) THEN "OpenApiV3Converter"
  ELSE IF OpenApiV3_1_is(value) THEN "OpenApiV3_1Converter"
  ELSE "none"

\* the if-chain of OpenApi.convert: the converter of the first recognizer
\* that matches
convertTarget(value) ==
  IF OpenApiV3_1_is(value) THEN "OpenApiV3_1Converter"
  ELSE IF OpenApiV3_is(value) THEN "OpenApiV3Converter"
  ELSE IF SwaggerV2_is(value) THEN "SwaggerV2Converter"
  ELSE "none"

OpenApi_convert(value) ==
  LET target == convertTarget(value)
  IN IF target = "OpenApiV3_1Converter" THEN OpenApiV3_1Converter_convert(value.v)
     ELSE IF target = "OpenApiV3Converter" THEN OpenApiV3Converter_convert(value.v)
     ELSE IF target = "SwaggerV2Converter" THEN SwaggerV2Converter_convert(value.v)
     ELSE Unrecognized

\* a Swagger 2.0 envelope; the emended marker is dropped
SwaggerV2Downgrader_downgrade(doc) ==
  [swagger |-> Str(V20)] @@ Pick(doc, {"info"})

\* an OpenAPI 3.0 envelope; the emended marker is dropped
OpenApiV3Downgrader_downgrade(doc) ==
  [openapi |-> Str(V300)] @@ Pick(doc, {"info"})

downgradeTargetLenient(tag) ==
  IF tag = V20 THEN "SwaggerV2Downgrader" ELSE "OpenApiV3Downgrader"

\* the if-chain of OpenApi.downgrade
downgradeTarget(tag) ==
  IF tag = V20 THEN "SwaggerV2Downgrader"
  ELSE IF tag = V30 THEN "OpenApiV3Downgrader"
  ELSE "none"

OpenApi_downgrade(doc, tag) ==
  LET target == downgradeTarget(tag)
  IN IF target = "SwaggerV2Downgrader" THEN SwaggerV2Downgrader_downgrade(doc)
     ELSE IF target = "OpenApiV3Downgrader" THEN OpenApiV3Downgrader_downgrade(doc)
     ELSE Unrecognized

(***************************************************************************)
(* Swagger 2.0 schemas handed to convertSchema.                            *)
(***************************************************************************)
EnumPool == <<"a", "b", "c", "d", "e">>

PetRef == <<"#", "/", "definitions", "/", "Pet">>

PrimitiveTypes == {"boolean", "integer", "number", "string"}

PlainLeaves ==
  {[type |-> t] : t \in PrimitiveTypes}
    \cup {[type |-> "string", enum |-> SubSeq(EnumPool, 1, n)] : n \in 0..MaxEnum}
    \cup {[type |-> "null"], Empty, ("$ref" :> PetRef), ("x-oneOf" :> <<>>)}

\* leaves that carry an attribute or an escape-hatch key
DecoratedLeaves ==
  {d @@ s : d \in {("x-foo" :> "v"), ("x-nullable" :> TRUE), [title |-> "T"]},
            s \in {[type |-> "string"],
                   [type |-> "integer", enum |-> SubSeq(EnumPool, 1, MaxEnum)],
                   ("$ref" :> PetRef)}}
    \cup {("x-nullable" :> FALSE) @@ [type |-> "string"],
          [type |-> "string", description |-> "D"],
          [type |-> "number", enum |-> SubSeq(EnumPool, 1, MaxEnum), deprecated |-> TRUE],
          ("x-nullable" :> TRUE) @@ ("x-anyOf" :> <<>>)}

Leaves == PlainLeaves \cup DecoratedLeaves

\* the branches that accompany a schema inside an x-oneOf / x-anyOf list
Siblings == <<[type |-> "string"], [type |-> "null"], ("$ref" :> PetRef),
              [type |-> "integer"], [type |-> "boolean"]>>

\* the composite schemas with s as their component
Composites(s) ==
  {[type |-> "array", items |-> s],
   [type |-> "object", properties |-> [p |-> s, q |-> [type |-> "string"]],
                       additionalProperties |-> [bool |-> TRUE]],
   [type |-> "object", additionalProperties |-> s],
   ("x-anyOf" :> (SubSeq(Siblings, 1, MaxBranch - 1) \o <<s>>)),
   ("x-foo" :> "w") @@ ("x-oneOf" :> <<s, [type |-> "string"]>>),
   ("x-nullable" :> TRUE) @@ ("x-anyOf" :> <<s>>),
   [title |-> "U"] @@ ("x-oneOf" :> <<s>>)}
    \cup {("x-oneOf" :> (<<s>> \o SubSeq(Siblings, 1, n))) : n \in 0..(MaxBranch - 1)}

RECURSIVE SchemasOfDepth(_)
SchemasOfDepth(d) ==
  IF d = 0 THEN Leaves
  ELSE LET below == SchemasOfDepth(d - 1)
       IN below \cup UNION {Composites(s) : s \in below}

\* schemas of the Swagger 2.0 grammar
Schemas == SchemasOfDepth(MaxDepth)

\* semantically sloppy schemas: an array without items, alone or nested
SloppySchemas ==
  {[type |-> "array"],
   [type |-> "object", properties |-> [p |-> [type |-> "array"]]],
   ("x-oneOf" :> <<[type |-> "string"], [type |-> "array"]>>)}

(***************************************************************************)
(* The schema normalizer applied to one schema.                            *)
(***************************************************************************)
None == [none |-> TRUE]

InitSchema ==
  /\ input \in Schemas \cup SloppySchemas
  /\ version = <<>>
  /\ emended = None
  /\ output = None
  /\ via = "none"
  /\ pc = "start"

ConvertSchema ==
  /\ pc = "start"
  /\ output' = convertSchema(input)
  /\ pc' = "done"
  /\ UNCHANGED <<input, version, emended, via>>

NextSchema == ConvertSchema

SpecSchema == InitSchema /\ [][NextSchema]_vars

(***************************************************************************)
(* Values handed to OpenApi.convert.                                       *)
(***************************************************************************)
\* longest parameters list of an operation
MaxParams == 2

Num(tokens) == [t |-> "number", v |-> tokens]

OpenapiFields ==
  {Str(V310), Str(<<"3", ".", "1", ".", "1">>), Str(<<"3", ".", "1">>),
   Str(<<"3", ".", "1", "0", ".", "0">>), Str(<<"3", ".", "0", ".", "3">>),
   Str(V30), Str(<<"3", ".", "2", ".", "0">>), Str(V20), Str(<<>>),
   Num(<<"3", ".", "1">>)}

SwaggerFields == {Str(V20), Str(<<"2">>), Str(<<"2", ".", "0", ".", "0">>), Num(V20)}

Optional(key, values) == {Empty} \cup {(key :> x) : x \in values}

\* document envelopes without paths or schemas in them, of every version
Envelopes ==
  {a @@ b @@ c @@ d @@ e :
     a \in Optional("openapi", OpenapiFields),
     b \in Optional("swagger", SwaggerFields),
     c \in Optional("x-samchon-emended", {TRUE, FALSE}),
     d \in {Empty, [paths |-> Empty], [definitions |-> Empty]},
     e \in Optional("info", {[title |-> "api"]})}

GeneralId == [name |-> "id", in |-> "path", type |-> "string", required |-> TRUE]
GeneralQ == [name |-> "q", in |-> "query", type |-> "integer", required |-> FALSE]
GeneralH == [name |-> "h", in |-> "header", type |-> "string"]
BodyB == [name |-> "b", in |-> "body", schema |-> ("$ref" :> PetRef)]
BodyC == [name |-> "c", in |-> "body", description |-> "payload",
          schema |-> [type |-> "array", items |-> ("$ref" :> PetRef)]]

ParameterRef(name) == ("$ref" :> <<"#", "/", "parameters", "/", name>>)
ResponseRef(name) == ("$ref" :> <<"#", "/", "responses", "/", name>>)

\* the entries a parameters list is drawn from: inline or references, the
\* last one to a parameter the document does not define
ParameterPool ==
  {GeneralId, GeneralQ, GeneralH, BodyB, BodyC, ParameterRef("B"), ParameterRef("Q"),
   ParameterRef("Missing")}

RECURSIVE ListsUpTo(_, _)
ListsUpTo(pool, n) ==
  IF n = 0 THEN {<<>>}
  ELSE LET shorter == ListsUpTo(pool, n - 1)
       IN shorter \cup {Append(l, x) : l \in {s \in shorter : Len(s) = n - 1}, x \in pool}

ResponseMaps ==
  {("200" :> [description |-> "ok", schema |-> ("$ref" :> PetRef)]),
   ("200" :> ResponseRef("Ok")) @@ ("404" :> ResponseRef("Missing")),
   ("200" :> [description |-> "ok",
              headers |-> ("X-Rate" :> [type |-> "integer"])])}

Operations ==
  {[operationId |-> "op"] @@ a @@ b :
     a \in Optional("parameters", ListsUpTo(ParameterPool, MaxParams)),
     b \in Optional("responses", ResponseMaps)}

PathItems ==
  {a @@ [get |-> o] :
     a \in Optional("parameters", {<<GeneralId>>, <<BodyB>>, <<ParameterRef("Q")>>}),
     o \in Operations}
    \cup {[get |-> [operationId |-> "read"],
           post |-> [operationId |-> "write", parameters |-> <<BodyB>>]]}

SecurityDefinitions ==
  [key |-> [type |-> "apiKey", name |-> "k", in |-> "header"],
   basic |-> [type |-> "basic", description |-> "b"],
   implicit |-> [type |-> "oauth2", flow |-> "implicit", authorizationUrl |-> "u"],
   code |-> [type |-> "oauth2", flow |-> "accessCode", tokenUrl |-> "t"],
   odd |-> [type |-> "oauth2", flow |-> "device"],
   digest |-> [type |-> "digest"]]

SwaggerBase ==
  [swagger |-> Str(V20),
   info |-> [title |-> "api"],
   definitions |-> [Pet |-> [type |-> "object"]],
   parameters |-> [B |-> BodyB, Q |-> GeneralQ],
   responses |-> [Ok |-> [description |-> "ok", schema |-> ("$ref" :> PetRef)]]]

\* Swagger 2.0 documents: every path item over fixed components, every
\* schema of depth one (and the sloppy ones) as a definition
SwaggerDocs ==
  {("paths" :> ("/pets" :> item)) @@ SwaggerBase : item \in PathItems}
    \cup {[definitions |-> [Pet |-> schema]] @@ SwaggerBase :
            schema \in SchemasOfDepth(1) \cup SloppySchemas}
    \cup {[host |-> "example.com", securityDefinitions |-> SecurityDefinitions]
            @@ SwaggerBase}

Inputs ==
  {[t |-> "null"], [t |-> "undefined"], [t |-> "string"], [t |-> "number"]}
    \cup {Obj(doc) : doc \in Envelopes \cup SwaggerDocs}

VersionTags == {V20, V30, V300, V310, <<"3">>, <<>>}

(***************************************************************************)
(* A caller converts a value, then converts the result again or            *)
(* downgrades it.                                                          *)
(***************************************************************************)
Init ==
  /\ input \in Inputs
  /\ version = <<>>
  /\ emended = None
  /\ output = None
  /\ via = "none"
  /\ pc = "start"

Convert ==
  /\ pc = "start"
  /\ emended' = OpenApi_convert(input)
  /\ via' = convertTarget(input)
  /\ pc' = "converted"
  /\ UNCHANGED <<input, version, output>>

Reconvert ==
  /\ pc = "converted"
  /\ ~IsThrown(emended)
  /\ output' = OpenApi_convert(Obj(emended))
  /\ via' = convertTarget(Obj(emended))
  /\ pc' = "reconverted"
  /\ UNCHANGED <<input, version, emended>>

Downgrade ==
  /\ pc = "converted"
  /\ ~IsThrown(emended)
  /\ \E tag \in VersionTags :
       /\ version' = tag
       /\ output' = OpenApi_downgrade(emended, tag)
       /\ via' = downgradeTarget(tag)
  /\ pc' = "downgraded"
  /\ UNCHANGED <<input, emended>>

Next == Convert \/ Reconvert \/ Downgrade

Spec == Init /\ [][Next]_vars

(***************************************************************************)
(* Walking a schema tree.                                                  *)
(***************************************************************************)
ListKeys == {"oneOf", "x-oneOf", "x-anyOf"}
MapKeys == {"properties", "properites"}
NodeKeys == {"items", "additionalProperties"}

\* the schemas directly below a schema node
Children(s) ==
  UNION {{s[k][i] : i \in 1..Len(s[k])} : k \in ListKeys \cap DOMAIN s}
    \cup UNION {{s[k][f] : f \in DOMAIN s[k]} : k \in MapKeys \cap DOMAIN s}
    \cup {s[k] : k \in {n \in NodeKeys \cap DOMAIN s : ~Has(s[n], "bool")}}

RECURSIVE AllNodes(_)
\* every schema node of a tree, at any depth
AllNodes(s) == {s} \cup UNION {AllNodes(c) : c \in Children(s)}

\* the branch list of an emended schema: the oneOf list, or the schema alone
Branches(s) == IF Has(s, "oneOf") THEN s.oneOf ELSE <<s>>

IsUnion(s) == isOneOf(s) \/ isAnyOf(s)

SourceBranches(s) == IF isAnyOf(s) THEN s["x-anyOf"] ELSE s["x-oneOf"]

Converted == pc = "done" /\ ~IsThrown(output)

(***************************************************************************)
(* C8: whatever the nesting of x-oneOf and x-anyOf in the source schema,   *)
(* no schema of the result that has a oneOf list has a branch that itself  *)
(* has a oneOf list.                                                       *)
(***************************************************************************)
C8_OneOfFlattened ==
  Converted =>
    \A n \in AllNodes(output) :
      Has(n, "oneOf") => \A i \in 1..Len(n.oneOf) : ~Has(n.oneOf[i], "oneOf")

\* a union nested in a union has been converted to a oneOf
C8_Witness ==
  /\ Converted
  /\ IsUnion(input)
  /\ \E i \in 1..Len(SourceBranches(input)) :
        /\ IsUnion(SourceBranches(input)[i])
        /\ Len(SourceBranches(SourceBranches(input)[i])) > 1
  /\ Has(output, "oneOf")

(***************************************************************************)
(* C9: every opaque x- key of a source schema node is on the corresponding *)
(* node of the result with the same value: the top node, and each branch   *)
(* of an x-oneOf / x-anyOf list, where a primitive with a non-empty enum   *)
(* corresponds to the Constant branches it fans out to.                    *)
(***************************************************************************)
OpaqueKeys(s) == {k \in DOMAIN s : KeyStartsWithXDash(k)} \ {"x-nullable", "x-oneOf", "x-anyOf"}

Preserves(source, result) ==
  \A k \in OpaqueKeys(source) : Has(result, k) /\ result[k] = source[k]

\* the number of result branches a non-union source branch stands for
Width(s) ==
  IF (isBoolean(s) \/ isInteger(s) \/ isNumber(s) \/ isString(s))
       /\ Has(s, "enum") /\ Len(s.enum) > 0
  THEN Len(s.enum) ELSE 1

RECURSIVE Offset(_, _)
\* the number of result branches that precede the i-th source branch
Offset(list, i) == IF i = 1 THEN 0 ELSE Offset(list, i - 1) + Width(list[i - 1])

FlatUnion(s) ==
  /\ IsUnion(s)
  /\ \A i \in 1..Len(SourceBranches(s)) : ~IsUnion(SourceBranches(s)[i])

C9_AttributesPreserved ==
  Converted =>
    /\ Preserves(input, output)
    /\ FlatUnion(input) =>
         LET list == SourceBranches(input)
         IN \A i \in 1..Len(list) :
              \A j \in (Offset(list, i) + 1)..(Offset(list, i) + Width(list[i])) :
                /\ j <= Len(Branches(output))
                /\ Preserves(list[i], Branches(output)[j])

(***************************************************************************)
(* Walking documents.                                                      *)
(***************************************************************************)
\* the (path, method) pairs of a document's operations
OperationKeys(doc) ==
  IF Has(doc, "paths")
  THEN {<<p, m>> : p \in DOMAIN doc.paths, m \in Methods} \cap
       UNION {{<<p, m>> : m \in Methods \cap DOMAIN doc.paths[p]} : p \in DOMAIN doc.paths}
  ELSE {}

MediaSchemas(holder) ==
  IF Has(holder, "content")
  THEN {holder.content[c].schema : c \in DOMAIN holder.content}
  ELSE {}

HeaderSchemas(response) ==
  IF Has(response, "headers")
  THEN {response.headers[h].schema : h \in DOMAIN response.headers}
  ELSE {}

OperationSchemas(op) ==
  {op.parameters[i].schema : i \in 1..Len(op.parameters)}
    \cup (IF Has(op, "requestBody") THEN MediaSchemas(op.requestBody) ELSE {})
    \cup (IF Has(op, "responses")
          THEN UNION {MediaSchemas(op.responses[r]) \cup HeaderSchemas(op.responses[r]) :
                        r \in DOMAIN op.responses}
          ELSE {})

\* the schemas of an emended document: components.schemas and those of the
\* parameters, request bodies, responses and response headers
SchemaRoots(doc) ==
  {doc.components.schemas[k] : k \in DOMAIN doc.components.schemas}
    \cup UNION {OperationSchemas(doc.paths[k[1]][k[2]]) : k \in OperationKeys(doc)}

\* every schema node of an emended document, at any depth
SchemaNodes(doc) == UNION {AllNodes(r) : r \in SchemaRoots(doc)}

Upgraded == pc = "converted" /\ via = "SwaggerV2Converter"

(***************************************************************************)
(* C1: convert is idempotent: converting the result of convert again       *)
(* returns a structurally equal document; and an input that carries        *)
(* x-samchon-emended = true with an openapi version 3.1.x is returned      *)
(* structurally unchanged.                                                 *)
(***************************************************************************)
EmendedInput ==
  /\ input.t = "object"
  /\ IsEmended(input.v)
  /\ Has(input.v, "openapi") /\ input.v.openapi.t = "string"
  /\ StartsWith(input.v.openapi.v, <<"3", ".", "1", ".">>)

C2_ConvertPrecedence ==
  pc = "converted" =>
    /\ OpenApiV3_1_is(input) =>
         via = "OpenApiV3_1Converter" /\ emended = OpenApiV3_1Converter_convert(input.v)
    /\ ~OpenApiV3_1_is(input) /\ OpenApiV3_is(input) =>
         via = "OpenApiV3Converter" /\ emended = OpenApiV3Converter_convert(input.v)
    /\ ~OpenApiV3_1_is(input) /\ ~OpenApiV3_is(input) /\ SwaggerV2_is(input) =>
         via = "SwaggerV2Converter" /\ emended = SwaggerV2Converter_convert(input.v)
    /\ emended = Unrecognized <=>
         ~(OpenApiV3_1_is(input) \/ OpenApiV3_is(input) \/ SwaggerV2_is(input))
    /\ emended = Unrecognized => via = "none"

\* a value that two recognizers match went to the converter of the first
C2_Witness ==
  /\ pc = "converted"
  /\ OpenApiV3_is(input) /\ SwaggerV2_is(input)
  /\ via = "OpenApiV3Converter"

(***************************************************************************)
(* C3: downgrade delegates to the Swagger 2.0 downgrader exactly when the  *)
(* version is "2.0", to the OpenAPI 3.0 downgrader exactly when it is      *)
(* "3.0", and for every other tag throws the unrecognized-version          *)
(* TypeError without invoking a downgrader.                                *)
(***************************************************************************)
C3_DowngradeDispatch ==
  pc = "downgraded" =>
    /\ version = V20 <=> via = "SwaggerV2Downgrader"
    /\ version = V30 <=> via = "OpenApiV3Downgrader"
    /\ version = V20 => output = SwaggerV2Downgrader_downgrade(emended)
    /\ version = V30 => output = OpenApiV3Downgrader_downgrade(emended)
    /\ version \notin {V20, V30} => output = Unrecognized /\ via = "none"

\* a tag close to a valid one has been refused
C3_Witness ==
  /\ pc = "downgraded"
  /\ version = V300
  /\ output = Unrecognized

(***************************************************************************)
(* C4: the upgrade is total: for every document classified as Swagger 2.0, *)
(* sloppy ones included, SwaggerV2Converter.convert returns a document and *)
(* does not throw.                                                         *)
(***************************************************************************)
C4_UpgradeTotal == Upgraded => ~IsThrown(emended)

(***************************************************************************)
(* C5: no schema node of the result of converting a Swagger 2.0 document   *)
(* carries x-nullable, x-oneOf, x-anyOf, nullable, anyOf, allOf or         *)
(* $recursiveRef.  (Every type of the input universe is a string, so no    *)
(* type of the result is an array.)                                        *)
(***************************************************************************)
SourceKeywords ==
  {"x-nullable", "x-oneOf", "x-anyOf", "nullable", "anyOf", "allOf", "$recursiveRef"}

C5_NoSourceKeywords ==
  Upgraded /\ ~IsThrown(emended) =>
    \A n \in SchemaNodes(emended) : DOMAIN n \cap SourceKeywords = {}

(***************************************************************************)
(* C6: every $ref of the result of converting a Swagger 2.0 document whose *)
(* references all have the form #/definitions/X begins with #/components/. *)
(***************************************************************************)
C6_RefsIntoComponents ==
  Upgraded /\ ~IsThrown(emended) =>
    \A n \in SchemaNodes(emended) :
      Has(n, "$ref") => StartsWith(n["$ref"], ComponentsPrefix)

(***************************************************************************)
(* C7: no Path of the result of converting a Swagger 2.0 document has a    *)
(* parameters key, also when the source path item declared path-level      *)
(* parameters.                                                             *)
(***************************************************************************)
C7_NoPathParameters ==
  Upgraded /\ ~IsThrown(emended) /\ Has(emended, "paths") =>
    \A p \in DOMAIN emended.paths : ~Has(emended.paths[p], "parameters")

(***************************************************************************)
(* C10: when the parameters of a Swagger 2.0 operation, after resolving    *)
(* references against the document's parameters, contain exactly one body  *)
(* parameter, the emended operation's parameters contain no body parameter *)
(* and requestBody.content["application/json"].schema is the normalized    *)
(* schema of that body parameter.                                          *)
(***************************************************************************)
\* the schemas of the document follow the Swagger 2.0 grammar
GrammarConformant(doc) ==
  \A k \in DOMAIN Get(doc, "definitions", Empty) :
    \A n \in AllNodes(doc.definitions[k]) : isArray(n) => Has(n, "items")

OwnParameters(doc, op) ==
  [i \in 1..Len(Get(op, "parameters", <<>>)) |-> resolveParameter(doc, op.parameters[i])]

IsBody(p) == ~IsUndefined(p) /\ Has(p, "in") /\ p["in"] = "body"

BodyPromoted(doc, op, result) ==
  LET own == OwnParameters(doc, op)
      bodies == {i \in 1..Len(own) : IsBody(own[i])}
  IN Cardinality(bodies) = 1 =>
       /\ ~IsThrown(result)
       /\ \A j \in 1..Len(result.parameters) : ~IsBody(result.parameters[j])
       /\ Has(result, "requestBody")
       /\ result.requestBody.content["application/json"].schema
            = convertSchema((own[CHOOSE i \in bodies : TRUE]).schema)

C10_BodyPromoted ==
  Upgraded /\ GrammarConformant(input.v) =>
    \A k \in OperationKeys(input.v) :
      BodyPromoted(input.v, input.v.paths[k[1]][k[2]],
                   IF IsThrown(emended) THEN Thrown ELSE emended.paths[k[1]][k[2]])

(***************************************************************************)
(* C11: a Swagger 2.0 operation whose collected parameters (path-level and *)
(* operation-level, references resolved) hold more than one body parameter *)
(* is omitted from its path of the result; an operation of the result      *)
(* stands for a source operation with at most one body parameter.          *)
(***************************************************************************)
\* [...pathItem.parameters, ...operation.parameters] as written in the source
Collected(item, op) == Get(item, "parameters", <<>>) \o Get(op, "parameters", <<>>)

\* the positions of the body parameters among the collected ones
BodyPositions(doc, item, op) ==
  {i \in 1..Len(Collected(item, op)) : IsBody(resolveParameter(doc, Collected(item, op)[i]))}

C11_MalformedOmitted ==
  Upgraded /\ ~IsThrown(emended) =>
    \A k \in OperationKeys(input.v) :
      Cardinality(BodyPositions(input.v, input.v.paths[k[1]], input.v.paths[k[1]][k[2]])) > 1
        => ~Has(emended.paths[k[1]], k[2])

(***************************************************************************)
(* C12: OpenApiV3_1.is accepts a value (so that convert hands it to the    *)
(* OpenAPI 3.1 converter) exactly when the value is a non-null object      *)
(* whose openapi field is a string starting with "3.1."; every other value *)
(* is refused: non-objects, null, a missing or non-string openapi, and the *)
(* strings "3.0.3", "3.1" and "3.10.0".                                    *)
(***************************************************************************)
HasPrefix31Dot(value) ==
  /\ value.t = "object"
  /\ Has(value.v, "openapi") /\ value.v.openapi.t = "string"
  /\ StartsWith(value.v.openapi.v, <<"3", ".", "1", ".">>)

C12_IsExactly31Dot ==
  pc = "converted" =>
    /\ OpenApiV3_1_is(input) <=> HasPrefix31Dot(input)
    /\ via = "OpenApiV3_1Converter" <=> HasPrefix31Dot(input)

(***************************************************************************)
(* C13: when the collected parameters of a Swagger 2.0 operation hold one  *)
(* body parameter, declared in the operation's own parameters or in the    *)
(* path-level parameters of its path item, the emended operation has a     *)
(* requestBody whose application/json schema is the normalized schema of   *)
(* that body parameter.                                                    *)
(***************************************************************************)
PromotedFrom(doc, item, op, result) ==
  LET bodies == BodyPositions(doc, item, op)
  IN Cardinality(bodies) = 1 =>
       /\ Has(result, "requestBody")
       /\ result.requestBody.content["application/json"].schema
            = convertSchema(resolveParameter(doc, Collected(item, op)[CHOOSE i \in bodies : TRUE]).schema)

C13_PathLevelBodyPromoted ==
  Upgraded /\ ~IsThrown(emended) =>
    \A k \in OperationKeys(input.v) :
      PromotedFrom(input.v, input.v.paths[k[1]], input.v.paths[k[1]][k[2]],
                   emended.paths[k[1]][k[2]])

(***************************************************************************)
(* C14: the parameters of an emended operation are the path-level entries  *)
(* followed by the operation-level entries, each reference replaced by the *)
(* parameter it names, without the references that do not resolve and      *)
(* without the body parameters, in their source order and each converted;  *)
(* the responses of an emended operation are the source responses under    *)
(* their status keys, without those given as a reference that does not     *)
(* resolve.                                                                *)
(***************************************************************************)
RECURSIVE Kept(_, _)
\* the entries of a collected list that stay, resolved, in order
Kept(doc, list) ==
  IF list = <<>> THEN <<>>
  ELSE (IF IsUndefined(resolveParameter(doc, Head(list)))
             \/ IsBody(resolveParameter(doc, Head(list)))
        THEN <<>> ELSE <<resolveParameter(doc, Head(list))>>)
         \o Kept(doc, Tail(list))

ParametersInOrder(kept, result) ==
  /\ Len(result.parameters) = Len(kept)
  /\ \A i \in 1..Len(kept) :
       /\ Pick(result.parameters[i], {"name", "in", "description"})
            = Pick(kept[i], {"name", "in", "description"})
       /\ result.parameters[i].schema = convertSchema(kept[i])

ResolvedResponse(doc, response) ==
  IF isReference(response) THEN Dereference(doc, "responses", response["$ref"])
  ELSE response

ResponsesKept(doc, op, result) ==
  Has(op, "responses") =>
    /\ Has(result, "responses")
    /\ DOMAIN result.responses
         = {r \in DOMAIN op.responses : ~IsUndefined(ResolvedResponse(doc, op.responses[r]))}
    /\ \A r \in DOMAIN result.responses :
         Pick(result.responses[r], {"description"})
           = Pick(ResolvedResponse(doc, op.responses[r]), {"description"})

C14_ParametersInOrder ==
  Upgraded /\ ~IsThrown(emended) =>
    \A k \in OperationKeys(input.v) :
      /\ ParametersInOrder(Kept(input.v, Collected(input.v.paths[k[1]],
                                                   input.v.paths[k[1]][k[2]])),
                           emended.paths[k[1]][k[2]])
      /\ ResponsesKept(input.v, input.v.paths[k[1]][k[2]], emended.paths[k[1]][k[2]])

\* an operation under a path item with a path-level parameter, whose own
\* list holds a reference that does not resolve and a body parameter, and
\* whose responses hold a reference that does not resolve, has been converted
C14_Witness ==
  /\ Upgraded /\ ~IsThrown(emended)
  /\ \E k \in OperationKeys(input.v) :
       LET item == input.v.paths[k[1]]
           list == Collected(item, item[k[2]])
       IN /\ Has(item, "parameters") /\ Len(list) = 3
          /\ isReference(list[1]) /\ ~IsUndefined(resolveParameter(input.v, list[1]))
          /\ \E i \in 2..3 : isReference(list[i])
                               /\ IsUndefined(resolveParameter(input.v, list[i]))
          /\ \E i \in 2..3 : IsBody(resolveParameter(input.v, list[i]))
          /\ Len(emended.paths[k[1]][k[2]].parameters) = 1
          /\ Has(item[k[2]], "responses")
          /\ DOMAIN emended.paths[k[1]][k[2]].responses # DOMAIN item[k[2]].responses

(***************************************************************************)
(* C15: the branches convertSchema accumulates are those of the schemas    *)
(* its visit reaches through x-oneOf / x-anyOf lists, in visit order; a    *)
(* Null branch is appended exactly when x-nullable = true was seen on a    *)
(* visited schema and no accumulated branch has type "null"; the result is *)
(* Unknown for zero branches, the branch itself for one, and otherwise a   *)
(* oneOf of the branches in that order.                                    *)
(***************************************************************************)
RECURSIVE VisitLeaves(_)
RECURSIVE LeavesOf(_)
RECURSIVE Signalled(_)
RECURSIVE ShapesOf(_)

\* the schemas that are not unions, in the order a visit of s meets them
VisitLeaves(s) == IF IsUnion(s) THEN LeavesOf(SourceBranches(s)) ELSE <<s>>

LeavesOf(list) ==
  IF list = <<>> THEN <<>> ELSE VisitLeaves(Head(list)) \o LeavesOf(Tail(list))

\* x-nullable = true is on s or on a schema a visit of s meets
Signalled(s) ==
  \/ Has(s, "x-nullable") /\ s["x-nullable"] = TRUE
  \/ IsUnion(s) /\ \E i \in 1..Len(SourceBranches(s)) : Signalled(SourceBranches(s)[i])

\* a primitive schema with a non-empty enum
FansOut(s) ==
  /\ Has(s, "type") /\ s.type \in PrimitiveTypes
  /\ Has(s, "enum") /\ Len(s.enum) > 0

\* what identifies a branch: its type, or its const
Shape(branch) == Pick(branch, {"type", "const"})

\* the shapes of the branches one visited schema contributes
LeafShapes(leaf) ==
  IF FansOut(leaf)
  THEN [i \in 1..Len(leaf.enum) |-> [const |-> leaf.enum[i]]]
  ELSE <<Pick(leaf, {"type"})>>

ShapesOf(leaves) ==
  IF leaves = <<>> THEN <<>> ELSE LeafShapes(Head(leaves)) \o ShapesOf(Tail(leaves))

HasNull(shapes) == \E i \in 1..Len(shapes) : shapes[i] = [type |-> "null"]

\* the shapes of the finalized branch list of convertSchema(s)
Finalized(s) ==
  IF Signalled(s) /\ ~HasNull(ShapesOf(VisitLeaves(s)))
  THEN Append(ShapesOf(VisitLeaves(s)), [type |-> "null"])
  ELSE ShapesOf(VisitLeaves(s))

FinalizedAs(branches, result) ==
  /\ Len(branches) = 0 => DOMAIN result \cap {"type", "const", "oneOf", "$ref"} = {}
  /\ Len(branches) = 1 => ~Has(result, "oneOf") /\ Shape(result) = branches[1]
  /\ Len(branches) > 1 =>
       /\ Has(result, "oneOf")
       /\ [i \in 1..Len(result.oneOf) |-> Shape(result.oneOf[i])] = branches

C15_UnionFinalized == Converted => FinalizedAs(Finalized(input), output)

\* a nullable union that already holds a Null branch among several has been
\* converted
C15_Witness ==
  /\ Converted
  /\ Signalled(input)
  /\ HasNull(ShapesOf(VisitLeaves(input)))
  /\ Len(VisitLeaves(input)) > 1
  /\ Has(output, "oneOf")

(***************************************************************************)
(* C16: a boolean/integer/number/string schema with a non-empty enum of n  *)
(* values is converted to n Constant branches, one per enum value in enum  *)
(* order, none of which has an enum or type key, and each of which carries *)
(* the title, description and opaque x- keys of the source schema.         *)
(***************************************************************************)
AttributeBag(s) == Pick(s, {"title", "description"} \cup OpaqueKeys(s))

Constants(result) ==
  {i \in 1..Len(Branches(result)) : Has(Branches(result)[i], "const")}

FannedOut(source, result) ==
  /\ Constants(result) = 1..Len(source.enum)
  /\ \A i \in Constants(result) :
       /\ Branches(result)[i].const = source.enum[i]
       /\ DOMAIN Branches(result)[i] \cap {"enum", "type"} = {}
       /\ Pick(Branches(result)[i], DOMAIN AttributeBag(source)) = AttributeBag(source)

C16_EnumFanOut == Converted /\ FansOut(input) => FannedOut(input, output)

(***************************************************************************)
(* C17: the result of converting a Swagger 2.0 object schema holds, under  *)
(* properties, the converted schema of each source property under its key, *)
(* holds the converted additionalProperties when the source's is a schema, *)
(* and has no properites key.                                              *)
(***************************************************************************)
PropertiesNormalized(source, result) ==
  /\ ~Has(result, "properites")
  /\ Has(source, "properties") =>
       /\ Has(result, "properties")
       /\ DOMAIN result.properties = DOMAIN source.properties
       /\ \A k \in DOMAIN source.properties :
            result.properties[k] = convertSchema(source.properties[k])
  /\ Has(source, "additionalProperties") /\ ~Has(source.additionalProperties, "bool") =>
       /\ Has(result, "additionalProperties")
       /\ result.additionalProperties = convertSchema(source.additionalProperties)

C17_PropertiesNormalized ==
  Converted /\ isObject(input) /\ ~IsUnion(input) => PropertiesNormalized(input, output)

(***************************************************************************)
(* C18: the title, description and deprecated values of the schema passed  *)
(* to convertSchema are on the result with the same values, whether the    *)
(* result is a single branch, a oneOf or Unknown; and when the result is   *)
(* made of a single branch that carries a title or description, the result *)
(* still has that key.                                                     *)
(***************************************************************************)
Hoisted(source, result) ==
  \A k \in {"title", "description", "deprecated"} \cap DOMAIN source :
    Has(result, k) /\ result[k] = source[k]

\* the result is one branch, spread from the one schema the visit reached
SingleBranch(source) ==
  /\ Len(VisitLeaves(source)) = 1
  /\ ~FansOut(VisitLeaves(source)[1])
  /\ Len(Finalized(source)) = 1

BranchKept(source, result) ==
  SingleBranch(source) =>
    \A k \in {"title", "description"} \cap DOMAIN VisitLeaves(source)[1] : Has(result, k)

C18_AttributesHoisted ==
  Converted => Hoisted(input, output) /\ BranchKept(input, output)

(***************************************************************************)
(* C19: every parameter of every operation of the result of converting a   *)
(* Swagger 2.0 document has required = true, whether the source parameter  *)
(* had required false, true or none; and no response header of the result  *)
(* has a required key.                                                     *)
(***************************************************************************)
AllRequired(op) ==
  \A i \in 1..Len(op.parameters) :
    Has(op.parameters[i], "required") /\ op.parameters[i].required = TRUE

HeadersOf(op) ==
  IF Has(op, "responses")
  THEN UNION {{op.responses[r].headers[h] : h \in DOMAIN op.responses[r].headers} :
                r \in {x \in DOMAIN op.responses : Has(op.responses[x], "headers")}}
  ELSE {}

C19_ParametersRequired ==
  Upgraded /\ ~IsThrown(emended) =>
    \A k \in OperationKeys(emended) :
      /\ AllRequired(emended.paths[k[1]][k[2]])
      /\ \A header \in HeadersOf(emended.paths[k[1]][k[2]]) : ~Has(header, "required")

\* an operation with a parameter whose source says required: false, one
\* whose source has no required, and a response header, has been converted
C19_Witness ==
  /\ Upgraded /\ ~IsThrown(emended)
  /\ \E k \in OperationKeys(input.v) :
       LET kept == Kept(input.v, Collected(input.v.paths[k[1]], input.v.paths[k[1]][k[2]]))
       IN /\ \E i \in 1..Len(kept) : Has(kept[i], "required") /\ kept[i].required = FALSE
          /\ \E i \in 1..Len(kept) : ~Has(kept[i], "required")
          /\ Len(emended.paths[k[1]][k[2]].parameters) = Len(kept)
          /\ HeadersOf(emended.paths[k[1]][k[2]]) # {}

====
